---- MODULE Spec2Model ----
(***************************************************************************)
(* Model of src/app.py: the Streamlit script that loads a holdings list,   *)
(* polls the market-data provider one instrument at a time, folds every    *)
(* successful quote into per-position rows and three portfolio totals,     *)
(* classifies stop-loss risk and renders the report.                       *)
(*                                                                         *)
(* Numbers.  The script computes with Python floats, and so does the       *)
(* model: a float is the dyadic number it stands for, and each operator    *)
(* rounds the exact result to 53 binary digits as IEEE 754 binary64 does.  *)
(* Quantities and cost prices are the integers of holdings.json; a         *)
(* stop_loss_pct is written in the file as a decimal num / den and becomes *)
(* a float when the file is loaded.                                        *)
(*                                                                         *)
(* Exceptions.  A call that raises is the value Raised(exc); a script run  *)
(* that an exception leaves is at pc = "crashed".                          *)
(*                                                                         *)
(* Strings.  The script's literals are Chinese; the module is ASCII, so    *)
(* the three risk labels are written SAFE / WARNING / BREACH, row fields   *)
(* carry English names, and the currency sign of the cards is left out.    *)
(***************************************************************************)
EXTENDS Integers, Sequences, FiniteSets, TLC

VARIABLES
    holdings_file,     \* holdings.json on disk
    button,            \* what st.button returns in the current script run
    pc,                \* position of the script run inside main()
    output,            \* what the page shows
    holdings,          \* main: holdings
    i,                 \* main: loop index (0-based, as enumerate gives it)
    df,                \* get_stock_data_individual: the provider's response
    data,              \* main: data
    market_val,        \* main: market_val
    portfolio_data,    \* main: portfolio_data
    total_asset,       \* main: total_asset
    total_profit,      \* main: total_profit
    total_day_profit,  \* main: total_day_profit
    history_cache,     \* main: history_cache
    fetch_log          \* the calls made at line 117 in this run: the code
                       \* asked for and what the call returned or raised

vars == <<holdings_file, button, pc, output, holdings, i, df, data,
          market_val, portfolio_data, total_asset, total_profit,
          total_day_profit, history_cache, fetch_log>>

-----------------------------------------------------------------------------
(* Bounds of the model. *)

MaxHoldings == 2      \* longest holdings list explored
MaxHist == 2          \* most rows the provider returns for one request

-----------------------------------------------------------------------------
(* Natural numbers of any size: sequences of limbs in base 2^15, lowest     *)
(* limb first, no zero limb at the top; << >> is 0.  An operator that needs *)
(* an intermediate result more than once hands it to a second operator as   *)
(* an argument.                                                             *)

LimbBase == 2 ^ 15

RECURSIVE SmallBitLen(_)
\* number of binary digits of an integer x >= 0
SmallBitLen(x) == IF x = 0 THEN 0 ELSE 1 + SmallBitLen(x \div 2)

\* binary digits of one limb
LimbBits == SmallBitLen(LimbBase - 1)

BHead(a) == IF a = << >> THEN 0 ELSE Head(a)

BTail(a) == IF a = << >> THEN << >> ELSE Tail(a)

BZeros(n) == [j \in 1..n |-> 0]

RECURSIVE BTrim(_)
BTrim(a) ==
    IF a = << >> THEN << >>
    ELSE IF a[Len(a)] = 0 THEN BTrim(SubSeq(a, 1, Len(a) - 1))
    ELSE a

RECURSIVE BFromInt(_)
BFromInt(k) ==
    IF k = 0 THEN << >>
    ELSE <<k % LimbBase>> \o BFromInt(k \div LimbBase)

RECURSIVE BCmpFrom(_, _, _)
BCmpFrom(a, b, k) ==
    IF k = 0 THEN 0
    ELSE IF a[k] < b[k] THEN -1
    ELSE IF a[k] > b[k] THEN 1
    ELSE BCmpFrom(a, b, k - 1)

\* -1, 0 or 1 as a < b, a = b or a > b
BCmp(a, b) ==
    IF Len(a) < Len(b) THEN -1
    ELSE IF Len(a) > Len(b) THEN 1
    ELSE BCmpFrom(a, b, Len(a))

RECURSIVE BAddC(_, _, _)
BAddC(a, b, c) ==
    IF a = << >> /\ b = << >> THEN (IF c = 0 THEN << >> ELSE <<c>>)
    ELSE <<(BHead(a) + BHead(b) + c) % LimbBase>>
             \o BAddC(BTail(a), BTail(b),
                      (BHead(a) + BHead(b) + c) \div LimbBase)

BAdd(a, b) == BAddC(a, b, 0)

RECURSIVE BSubC(_, _, _)
BSubC(a, b, c) ==
    IF a = << >> THEN << >>
    ELSE <<(Head(a) - BHead(b) - c) % LimbBase>>
             \o BSubC(Tail(a), BTail(b),
                      IF Head(a) - BHead(b) - c < 0 THEN 1 ELSE 0)

\* a - b for a >= b
BSub(a, b) == BTrim(BSubC(a, b, 0))

RECURSIVE BMulSmallC(_, _, _)
BMulSmallC(a, k, c) ==
    IF a = << >> THEN (IF c = 0 THEN << >> ELSE <<c>>)
    ELSE <<(Head(a) * k + c) % LimbBase>>
             \o BMulSmallC(Tail(a), k, (Head(a) * k + c) \div LimbBase)

\* a * k for 0 <= k < 2^15
BMulSmall(a, k) == IF k = 0 THEN << >> ELSE BMulSmallC(a, k, 0)

\* a * 2^15
BShiftLimb(a) == IF a = << >> THEN << >> ELSE <<0>> \o a

RECURSIVE BMul(_, _)
BMul(a, b) ==
    IF a = << >> \/ b = << >> THEN << >>
    ELSE BAdd(BMulSmall(a, Head(b)), BShiftLimb(BMul(a, Tail(b))))

\* a * 2^k
BShl(a, k) ==
    IF a = << >> THEN << >>
    ELSE BZeros(k \div LimbBits) \o BMulSmall(a, 2 ^ (k % LimbBits))

\* the quotient rest.q with the digit t put below it
BPutDigit(rest, t) == [q |-> Append(rest.q, t), r |-> rest.r]

\* the pair qr with its quotient freed of zero limbs at the top
BTrimQuot(qr) == [q |-> BTrim(qr.q), r |-> qr.r]

RECURSIVE BDivSmallFrom(_, _, _, _)
BDivSmallFrom(a, d, k, r) ==
    IF k = 0 THEN [q |-> << >>, r |-> r]
    ELSE BPutDigit(BDivSmallFrom(a, d, k - 1, (r * LimbBase + a[k]) % d),
                   (r * LimbBase + a[k]) \div d)

\* quotient (a number) and remainder (an integer) of a by d, 0 < d < 2^15
BDivModSmall(a, d) == BTrimQuot(BDivSmallFrom(a, d, Len(a), 0))

\* the largest t in lo..hi with d * t <= rem
RECURSIVE BDigit(_, _, _, _)
BDigit(rem, d, lo, hi) ==
    IF lo = hi THEN lo
    ELSE IF BCmp(BMulSmall(d, (lo + hi + 1) \div 2), rem) <= 0
         THEN BDigit(rem, d, (lo + hi + 1) \div 2, hi)
         ELSE BDigit(rem, d, lo, (lo + hi + 1) \div 2 - 1)

RECURSIVE BLongFrom(_, _, _, _)
RECURSIVE BLongStep(_, _, _, _)
RECURSIVE BLongPut(_, _, _, _, _)
\* long division of the limbs n[k], ..., n[1] with rem carried in
BLongFrom(n, d, k, rem) ==
    IF k = 0 THEN [q |-> << >>, r |-> rem]
    ELSE BLongStep(n, d, k, BTrim(<<n[k]>> \o rem))

BLongStep(n, d, k, cur) ==
    BLongPut(n, d, k, cur, BDigit(cur, d, 0, LimbBase - 1))

BLongPut(n, d, k, cur, t) ==
    BPutDigit(BLongFrom(n, d, k - 1, BSub(cur, BMulSmall(d, t))), t)

\* the pair qr with its remainder made a number
BNumRem(qr) == [q |-> qr.q, r |-> BFromInt(qr.r)]

\* quotient and remainder (both numbers) of n by d, d > 0
BDivMod(n, d) ==
    IF Len(d) = 1
    THEN BNumRem(BDivModSmall(n, d[1]))
    ELSE BTrimQuot(BLongFrom(n, d, Len(n), << >>))

\* number of binary digits of a
BBitLen(a) ==
    IF a = << >> THEN 0
    ELSE (Len(a) - 1) * LimbBits + SmallBitLen(a[Len(a)])

\* the remainder of a by 2^s from the low limbs and the pair dm
BShrPack(low, dm) == [q |-> dm.q, r |-> BTrim(low \o <<dm.r>>)]

\* quotient and remainder (both numbers) of a by 2^s
BShrRem(a, s) ==
    IF s \div LimbBits >= Len(a) THEN [q |-> << >>, r |-> a]
    ELSE BShrPack(SubSeq(a, 1, s \div LimbBits),
                  BDivModSmall(SubSeq(a, s \div LimbBits + 1, Len(a)),
                               2 ^ (s % LimbBits)))

\* the quotient qr.q, or the next number when the remainder is over half
\* (c > 0), or is half (c = 0) and the quotient is odd
BRoundUp(qr, c) ==
    IF c > 0 \/ (c = 0 /\ BHead(qr.q) % 2 = 1)
    THEN BAdd(qr.q, <<1>>)
    ELSE qr.q

BRoundPair(qr, s) == BRoundUp(qr, BCmp(BShl(qr.r, 1), BShl(<<1>>, s)))

\* nearest number to a / 2^s, ties to the even one
BShrRound(a, s) == BRoundPair(BShrRem(a, s), s)

RECURSIVE SmallTrailingZeros(_)
SmallTrailingZeros(x) ==
    IF x % 2 = 1 THEN 0 ELSE 1 + SmallTrailingZeros(x \div 2)

BStripBits(m, e, t) == [m |-> BDivModSmall(m, 2 ^ t).q, e |-> e + t]

\* m * 2^e with the factors 2 of m moved into the exponent (m > 0)
RECURSIVE BStripZeros(_, _)
BStripZeros(m, e) ==
    IF m[1] = 0 THEN BStripZeros(Tail(m), e + LimbBits)
    ELSE BStripBits(m, e, SmallTrailingZeros(m[1]))

-----------------------------------------------------------------------------
(* Dyadic numbers: [neg, m, e] is (-1)^neg * m * 2^e with m odd, or         *)
(* m = << >> and e = 0 for zero (which keeps its sign, as a float's does).  *)
(* Sums and products of dyadic numbers are dyadic: the D operators are      *)
(* exact.                                                                   *)

DZero(neg) == [neg |-> neg, m |-> << >>, e |-> 0]

DSigned(neg, s) == [neg |-> neg, m |-> s.m, e |-> s.e]

Dyadic(neg, m, e) ==
    IF m = << >> THEN DZero(neg) ELSE DSigned(neg, BStripZeros(m, e))

DIsZero(a) == a.m = << >>

DNeg(a) == [neg |-> ~a.neg, m |-> a.m, e |-> a.e]

\* a.m * 2^(a.e - em), for em <= a.e
DAligned(a, em) == BShl(a.m, a.e - em)

DMinExp(a, b) == IF a.e < b.e THEN a.e ELSE b.e

\* -1, 0 or 1 as |a| < |b|, |a| = |b| or |a| > |b|
DCmpAbs(a, b) ==
    BCmp(DAligned(a, DMinExp(a, b)), DAligned(b, DMinExp(a, b)))

\* a < b (the two zeros are equal)
DLt(a, b) ==
    IF DIsZero(a) /\ DIsZero(b) THEN FALSE
    ELSE IF a.neg /\ ~b.neg THEN TRUE
    ELSE IF ~a.neg /\ b.neg THEN FALSE
    ELSE IF a.neg THEN DCmpAbs(a, b) > 0
    ELSE DCmpAbs(a, b) < 0

\* x * 2^em with the sign an minus y * 2^em with the sign an, c = BCmp(x, y)
DDiff(an, x, y, em, c) ==
    IF c = 0 THEN DZero(FALSE)
    ELSE IF c > 0 THEN Dyadic(an, BSub(x, y), em)
    ELSE Dyadic(~an, BSub(y, x), em)

\* the sum of x * 2^em with the sign an and y * 2^em with the sign bn
DAddAligned(an, bn, x, y, em) ==
    IF an = bn THEN Dyadic(an, BAdd(x, y), em)
    ELSE DDiff(an, x, y, em, BCmp(x, y))

DAddAt(a, b, em) ==
    DAddAligned(a.neg, b.neg, DAligned(a, em), DAligned(b, em), em)

\* a + b; the sign of a zero sum is that of IEEE 754: x + (-x) is +0 and
\* (-0) + (-0) is -0
DAdd(a, b) == DAddAt(a, b, DMinExp(a, b))

DSub(a, b) == DAdd(a, DNeg(b))

DMul(a, b) == Dyadic(a.neg # b.neg, BMul(a.m, b.m), a.e + b.e)

\* the integer k
DInt(k) == Dyadic(k < 0, BFromInt(IF k < 0 THEN -k ELSE k), 0)

-----------------------------------------------------------------------------
(* Python floats: IEEE 754 binary64.  A finite float is a dyadic number     *)
(* whose m has at most 53 binary digits; every operation gives the float    *)
(* nearest to the exact result, ties to the one with an even last digit.    *)
(* The exponent range of the format (overflow to infinity, subnormal        *)
(* numbers) is not modelled.                                                *)

\* a, whose m has L binary digits, rounded to 53 binary digits
FRoundAt(a, L) ==
    IF L <= 53 THEN a
    ELSE Dyadic(a.neg, BShrRound(a.m, L - 53), a.e + (L - 53))

\* the float nearest to the dyadic number a
FRound(a) == FRoundAt(a, BBitLen(a.m))

\* float(k) for an integer k
FromInt(k) == FRound(DInt(k))

FIsZero(a) == DIsZero(a)

\* a < b
FLt(a, b) == DLt(a, b)

\* a + b
FAdd(a, b) == FRound(DAdd(a, b))

\* a - b
FSub(a, b) == FRound(DSub(a, b))

\* a * b
FMul(a, b) == FRound(DMul(a, b))

\* the quotient dm.q with one more binary digit that says whether anything
\* was left over
FSticky(dm) ==
    BAdd(BMulSmall(dm.q, 2), IF dm.r = << >> THEN << >> ELSE <<1>>)

\* a / b from the quotient of a.m * 2^k by b.m
FDivAt(a, b, k) ==
    FRound(Dyadic(a.neg # b.neg, FSticky(BDivMod(BShl(a.m, k), b.m)),
                  a.e - b.e - k - 1))

\* a / b for b # 0: the quotient of the two m is taken to 55 or more binary
\* digits
FDiv(a, b) ==
    IF FIsZero(a) THEN DZero(a.neg # b.neg)
    ELSE IF 55 + BBitLen(b.m) - BBitLen(a.m) > 0
         THEN FDivAt(a, b, 55 + BBitLen(b.m) - BBitLen(a.m))
         ELSE FDivAt(a, b, 0)

\* the float that json.load and the compiler make of the decimal literal
\* num / den (den > 0)
FromRatio(num, den) == FDiv(FromInt(num), FromInt(den))

-----------------------------------------------------------------------------
(* Number formatting: "{:.2f}" and "{:,.0f}" print the exact value of the   *)
(* float rounded to the digits asked for, ties to even.                     *)

\* p * 2^e rounded to a whole number
BScaled(p, e) == IF e >= 0 THEN BShl(p, e) ELSE BShrRound(p, -e)

\* |a| * 10^digits rounded to a whole number (10^digits < 2^15)
FScaledRound(a, digits) == BScaled(BMulSmall(a.m, 10 ^ digits), a.e)

TwoDigits(k) == IF k < 10 THEN "0" \o ToString(k) ELSE ToString(k)

ThreeDigits(k) ==
    IF k < 10 THEN "00" \o ToString(k)
    ELSE IF k < 100 THEN "0" \o ToString(k) ELSE ToString(k)

RECURSIVE BDecimal(_)
RECURSIVE BDecimalOf(_)
\* the decimal digits of n
BDecimal(n) == BDecimalOf(BDivModSmall(n, 10))

BDecimalOf(dm) ==
    IF dm.q = << >> THEN ToString(dm.r)
    ELSE BDecimal(dm.q) \o ToString(dm.r)

RECURSIVE Grouped(_)
RECURSIVE GroupedOf(_)
\* the decimal digits of n in groups of three
Grouped(n) == GroupedOf(BDivModSmall(n, 1000))

GroupedOf(dm) ==
    IF dm.q = << >> THEN ToString(dm.r)
    ELSE Grouped(dm.q) \o "," \o ThreeDigits(dm.r)

\* the digits of a number of hundredths
Fixed2Of(dm) == BDecimal(dm.q) \o "." \o TwoDigits(dm.r)

\* f"{a:.2f}" for a finite float a
FormatFixed2(a) ==
    (IF a.neg THEN "-" ELSE "")
        \o Fixed2Of(BDivModSmall(FScaledRound(a, 2), 100))

\* f"{a:,.0f}"
FormatComma0(a) ==
    (IF a.neg THEN "-" ELSE "") \o Grouped(FScaledRound(a, 0))

-----------------------------------------------------------------------------
(* Inputs. *)

None == [tag |-> "None"]

\* a call that ended by raising an exception of class exc
Raised(exc) == [tag |-> "exception", exc |-> exc]

\* the exception classes told apart: an Exception of the provider call or of
\* the processing of its response; a BaseException that is not an Exception;
\* what print raises when stdout cannot take the message; a float divided by
\* the integer 0
Exceptions ==
    {"Exception", "KeyboardInterrupt", "UnicodeEncodeError",
     "ZeroDivisionError"}

IsRaised(r) == r \in { Raised(exc) : exc \in Exceptions }

\* closing prices the provider may report
Closes == {80, 104}

\* the holdings holdings.json may list (cost_price > 0); stop_loss_pct is the
\* decimal num / den written in the file
HoldingPool ==
    { [code |-> "A", name |-> "Alpha",  quantity |-> 100, cost_price |-> 104,
       stop_loss_pct |-> [num |-> 0, den |-> 100]],
      [code |-> "B", name |-> "Beta",   quantity |-> -2,  cost_price |-> 80,
       stop_loss_pct |-> [num |-> 27, den |-> 100]],
      [code |-> "A", name |-> "Alpha2", quantity |-> 1,   cost_price |-> 80,
       stop_loss_pct |-> [num |-> 8, den |-> 100]] }

SeqsUpTo(S, n) == UNION { [1..k -> S] : k \in 0..n }

\* holdings.json: unreadable, or a list of holdings
HoldingsFiles ==
    { [readable |-> FALSE, content |-> << >>] }
        \cup { [readable |-> TRUE, content |-> h] :
                   h \in SeqsUpTo(HoldingPool, MaxHoldings) }

\* what ak.stock_zh_a_hist can do: raise an Exception, be left by a
\* BaseException, return a frame that cannot be processed, or return a frame
\* of 0..MaxHist daily rows (closes, oldest first)
ProviderResponses ==
    { [kind |-> "raise"], [kind |-> "interrupt"], [kind |-> "malformed"] }
        \cup { [kind |-> "rows", rows |-> h] : h \in SeqsUpTo(Closes, MaxHist) }

\* json.load, line 28: the decimals of the file become floats
ParseHolding(h) ==
    [code          |-> h.code,
     name          |-> h.name,
     quantity      |-> h.quantity,
     cost_price    |-> h.cost_price,
     stop_loss_pct |-> FromRatio(h.stop_loss_pct.num, h.stop_loss_pct.den)]

-----------------------------------------------------------------------------
(* get_stock_data_individual *)

\* numpy's float64 x / 0: no exception, an infinity or a NaN
NumpyDivZero(x) ==
    IF FIsZero(x) THEN [tag |-> "nan"] ELSE [tag |-> "inf", neg |-> x.neg]

\* diff / prev_close * 100 on float64
PctOf(diff, prev_close) ==
    IF FIsZero(prev_close) THEN NumpyDivZero(diff)
    ELSE FMul(FDiv(diff, prev_close), FromInt(100))

\* line 59: (current_price - prev_close) / prev_close * 100
PctChange(current_price, prev_close) ==
    PctOf(FSub(current_price, prev_close), prev_close)

\* lines 67-74
Snapshot(code, name, rows, current_price, pct_change, day_profit_per_share) ==
    [code |-> code,
     name |-> name,
     current_price |-> current_price,
     pct_change |-> pct_change,
     day_profit_per_share |-> day_profit_per_share,
     history_df |-> rows]

\* SnapshotOfTwo with the change measured against the latest close
SnapshotOfTwo_OverCurrent(code, name, rows, prev_close, current_price) ==
    Snapshot(code, name, rows, current_price,
             PctOf(FSub(current_price, prev_close), current_price),
             FSub(current_price, prev_close))

\* lines 56-60: two rows or more
SnapshotOfTwo(code, name, rows, prev_close, current_price) ==
    Snapshot(code, name, rows, current_price,
             PctChange(current_price, prev_close),
             FSub(current_price, prev_close))

\* lines 61-65: one row
SnapshotOfOne(code, name, rows, current_price) ==
    Snapshot(code, name, rows, current_price, DZero(FALSE), DZero(FALSE))

\* FetchBody with the change measured against the latest close
FetchBody_OverCurrent(code, name, resp) ==
    IF resp.kind = "raise" THEN Raised("Exception")
    ELSE IF resp.kind = "interrupt" THEN Raised("KeyboardInterrupt")
    ELSE IF resp.kind = "malformed" THEN Raised("Exception")
    ELSE IF resp.rows = << >> THEN None
    ELSE IF Len(resp.rows) >= 2
    THEN SnapshotOfTwo_OverCurrent(code, name, resp.rows,
                                   FromInt(resp.rows[Len(resp.rows) - 1]),
                                   FromInt(resp.rows[Len(resp.rows)]))
    ELSE SnapshotOfOne(code, name, resp.rows,
                       FromInt(resp.rows[Len(resp.rows)]))

\* lines 41-74, the body of the try block: what it returns, or Raised(exc)
\* when a statement in it raises; the latest row is the last one, the
\* previous close is that of the row before it
FetchBody(code, name, resp) ==
    IF resp.kind = "raise" THEN Raised("Exception")          \* line 46
    ELSE IF resp.kind = "interrupt" THEN Raised("KeyboardInterrupt")
    ELSE IF resp.kind = "malformed" THEN Raised("Exception") \* lines 48-58
    ELSE IF resp.rows = << >> THEN None                      \* lines 48-49
    ELSE IF Len(resp.rows) >= 2
    THEN SnapshotOfTwo(code, name, resp.rows,
                       FromInt(resp.rows[Len(resp.rows) - 1]),
                       FromInt(resp.rows[Len(resp.rows)]))
    ELSE SnapshotOfOne(code, name, resp.rows,
                       FromInt(resp.rows[Len(resp.rows)]))

\* lines 76-78, for the outcome r of the body: an Exception is caught; the
\* handler prints a message in Chinese and returns None.  print_ok says
\* whether stdout takes the message: when it does not (an encoding without
\* these characters, or a closed stream) print raises inside the handler and
\* that exception leaves the function.  A BaseException that is not an
\* Exception is not caught.
ExceptClause(r, print_ok) ==
    IF r = Raised("Exception")
    THEN (IF print_ok THEN None ELSE Raised("UnicodeEncodeError"))
    ELSE r

\* lines 34-78
get_stock_data_individual(code, name, resp, print_ok) ==
    ExceptClause(FetchBody(code, name, resp), print_ok)

-----------------------------------------------------------------------------
(* Risk classification, lines 138-144. *)

\* the literal 0.03 of line 143
Margin == FromRatio(3, 100)

\* Distance with the operands of the subtraction exchanged
Distance_Reversed(profit_pct, stop_loss_pct) ==
    FSub(stop_loss_pct, FDiv(profit_pct, FromInt(100)))

\* line 140
Distance(profit_pct, stop_loss_pct) ==
    FSub(FDiv(profit_pct, FromInt(100)), stop_loss_pct)

\* lines 139 and 141-144
RiskStatus(distance) ==
    IF FLt(distance, DZero(FALSE)) THEN "BREACH"
    ELSE IF FLt(distance, Margin) THEN "WARNING"
    ELSE "SAFE"

-----------------------------------------------------------------------------
(* Per-holding arithmetic of main, lines 124-131 and 146-158. *)

\* line 128
MarketVal(stock, snap) == FMul(snap.current_price, FromInt(stock.quantity))

\* line 129
Profit(stock, snap) ==
    FMul(FSub(snap.current_price, FromInt(stock.cost_price)),
         FromInt(stock.quantity))

\* ProfitPct relative to the current price instead of the cost
ProfitPct_OverCurrent(stock, snap) ==
    IF FIsZero(snap.current_price) THEN Raised("ZeroDivisionError")
    ELSE FMul(FDiv(FSub(snap.current_price, FromInt(stock.cost_price)),
                   snap.current_price), FromInt(100))

\* line 130: a float divided by cost_price; Python raises ZeroDivisionError
\* when cost_price is 0
ProfitPct(stock, snap) ==
    IF stock.cost_price = 0 THEN Raised("ZeroDivisionError")
    ELSE FMul(FDiv(FSub(snap.current_price, FromInt(stock.cost_price)),
                   FromInt(stock.cost_price)), FromInt(100))

\* line 131
DayProfit(stock, snap) ==
    FMul(snap.day_profit_per_share, FromInt(stock.quantity))

\* f"{pct_change:.2f}%", line 152
FormatPct2(pct_change) ==
    IF pct_change = [tag |-> "nan"] THEN "nan%"
    ELSE IF pct_change = [tag |-> "inf", neg |-> FALSE] THEN "inf%"
    ELSE IF pct_change = [tag |-> "inf", neg |-> TRUE] THEN "-inf%"
    ELSE FormatFixed2(pct_change) \o "%"

\* lines 146-158, from the values of lines 129-131
RowOf(stock, snap, profit, profit_pct, day_profit) ==
    [code           |-> stock.code,
     name           |-> stock.name,
     qty            |-> stock.quantity,
     cost           |-> stock.cost_price,
     current        |-> snap.current_price,
     pct_change     |-> FormatPct2(snap.pct_change),
     profit         |-> profit,
     profit_pct     |-> profit_pct,
     day_profit     |-> day_profit,
     risk_status    |-> RiskStatus(Distance(profit_pct, stock.stop_loss_pct)),
     stop_loss_line |-> FMul(stock.stop_loss_pct, FromInt(100))]

\* the row of a holding whose cost_price is not 0
Row(stock, snap) ==
    RowOf(stock, snap, Profit(stock, snap), ProfitPct(stock, snap),
          DayProfit(stock, snap))

EmptyCache == [c \in {} |-> << >>]

CachePut(cache, code, hist) ==
    [c \in DOMAIN cache \cup {code} |-> IF c = code THEN hist ELSE cache[c]]

NoOutput == [kind |-> "none"]

-----------------------------------------------------------------------------
(* The script run. *)

Init ==
    /\ holdings_file \in HoldingsFiles
    /\ button = FALSE
    /\ pc = "load"
    /\ output = NoOutput
    /\ holdings = << >>
    /\ i = 0
    /\ df = None
    /\ data = None
    /\ market_val = DZero(FALSE)
    /\ portfolio_data = << >>
    /\ total_asset = DZero(FALSE)
    /\ total_profit = DZero(FALSE)
    /\ total_day_profit = DZero(FALSE)
    /\ history_cache = EmptyCache
    /\ fetch_log = << >>

\* load_holdings (lines 24-31) and lines 88-90
LoadHoldings ==
    /\ pc = "load"
    /\ holdings' = IF holdings_file.readable
                   THEN [k \in 1..Len(holdings_file.content) |->
                            ParseHolding(holdings_file.content[k])]
                   ELSE << >>
    /\ output' = IF holdings_file.readable
                 THEN output
                 ELSE [kind |-> "error", msg |-> "HOLDINGS_NOT_FOUND"]
    /\ pc' = IF holdings' = << >> THEN "stopped" ELSE "button"
    /\ UNCHANGED <<holdings_file, button, i, df, data, market_val,
                   portfolio_data, total_asset, total_profit,
                   total_day_profit, history_cache, fetch_log>>

\* lines 92-93: a click on the refresh button starts the script over
RefreshButton ==
    /\ pc = "button"
    /\ IF button
       THEN /\ pc' = "load"
            /\ button' = FALSE
       ELSE /\ pc' = "init"
            /\ UNCHANGED button
    /\ UNCHANGED <<holdings_file, output, holdings, i, df, data, market_val,
                   portfolio_data, total_asset, total_profit,
                   total_day_profit, history_cache, fetch_log>>

\* ResetAccumulators that leaves the three totals as they are
ResetAccumulators_CarryOver ==
    /\ pc = "init"
    /\ portfolio_data' = << >>
    /\ history_cache' = EmptyCache
    /\ fetch_log' = << >>
    /\ i' = 0
    /\ pc' = "fetch"
    /\ UNCHANGED <<holdings_file, button, output, holdings, df, data,
                   market_val, total_asset, total_profit, total_day_profit>>

\* lines 96-108: the accumulators start empty and the loop is entered
\* (holdings is not empty here)
ResetAccumulators ==
    /\ pc = "init"
    /\ portfolio_data' = << >>
    /\ total_asset' = DZero(FALSE)
    /\ total_profit' = DZero(FALSE)
    /\ total_day_profit' = DZero(FALSE)
    /\ history_cache' = EmptyCache
    /\ fetch_log' = << >>
    /\ i' = 0
    /\ pc' = "fetch"
    /\ UNCHANGED <<holdings_file, button, output, holdings, df, data,
                   market_val>>

\* line 117, for the outcome of the call: data is assigned what the call
\* returned; when the call raised, data is not assigned and the exception
\* ends the script run
FetchOutcome(code, resp, result) ==
    /\ df' = resp
    /\ fetch_log' = Append(fetch_log, [code |-> code, result |-> result])
    /\ IF IsRaised(result)
       THEN /\ pc' = "crashed"
            /\ output' = [kind |-> "exception", exc |-> result.exc]
            /\ UNCHANGED data
       ELSE /\ pc' = "process"
            /\ data' = result
            /\ UNCHANGED output

\* lines 109-117: one call of get_stock_data_individual for holdings[i]
Fetch ==
    /\ pc = "fetch"
    /\ \E resp \in ProviderResponses, print_ok \in BOOLEAN :
          FetchOutcome(holdings[i + 1].code, resp,
                       get_stock_data_individual(holdings[i + 1].code,
                                                 holdings[i + 1].name,
                                                 resp, print_ok))
    /\ UNCHANGED <<holdings_file, button, holdings, i, market_val,
                   portfolio_data, total_asset, total_profit,
                   total_day_profit, history_cache>>

\* lines 121-158 for a snapshot: lines 121-129 run, then line 130 divides by
\* cost_price; when that raises, the exception ends the script run with the
\* totals and the rows as they were
ProcessSnapshot(stock, snap, val, profit, profit_pct, day_profit) ==
    /\ history_cache' = CachePut(history_cache, stock.code, snap.history_df)
    /\ market_val' = val
    /\ IF IsRaised(profit_pct)
       THEN /\ pc' = "crashed"
            /\ output' = [kind |-> "exception", exc |-> profit_pct.exc]
            /\ UNCHANGED <<total_asset, total_profit, total_day_profit,
                           portfolio_data>>
       ELSE /\ total_asset' = FAdd(total_asset, val)
            /\ total_profit' = FAdd(total_profit, profit)
            /\ total_day_profit' = FAdd(total_day_profit, day_profit)
            /\ portfolio_data' =
                   Append(portfolio_data,
                          RowOf(stock, snap, profit, profit_pct, day_profit))
            /\ pc' = "sleep"
            /\ UNCHANGED output

\* Process that goes to the next holding without the delay when a fetch
\* failed
Process_ContinueOnFailure ==
    /\ pc = "process"
    /\ IF data # None
       THEN /\ ProcessSnapshot(holdings[i + 1], data,
                               MarketVal(holdings[i + 1], data),
                               Profit(holdings[i + 1], data),
                               ProfitPct(holdings[i + 1], data),
                               DayProfit(holdings[i + 1], data))
            /\ UNCHANGED i
       ELSE /\ UNCHANGED <<history_cache, market_val, total_asset,
                           total_profit, total_day_profit, portfolio_data,
                           output>>
            /\ IF i + 1 < Len(holdings)
               THEN /\ i' = i + 1
                    /\ pc' = "fetch"
               ELSE /\ pc' = "after_loop"
                    /\ UNCHANGED i
    /\ UNCHANGED <<holdings_file, button, holdings, df, data, fetch_log>>

\* lines 119-158: fold the outcome of the fetch into the accumulators
Process ==
    /\ pc = "process"
    /\ IF data # None
       THEN /\ ProcessSnapshot(holdings[i + 1], data,
                               MarketVal(holdings[i + 1], data),
                               Profit(holdings[i + 1], data),
                               ProfitPct(holdings[i + 1], data),
                               DayProfit(holdings[i + 1], data))
            /\ UNCHANGED i
       ELSE /\ UNCHANGED <<history_cache, market_val, total_asset,
                           total_profit, total_day_profit, portfolio_data,
                           output>>
            /\ pc' = "sleep"
            /\ UNCHANGED i
    /\ UNCHANGED <<holdings_file, button, holdings, df, data, fetch_log>>

\* line 161, then the loop header: the next holding, or the end of the loop
Sleep ==
    /\ pc = "sleep"
    /\ IF i + 1 < Len(holdings)
       THEN /\ i' = i + 1
            /\ pc' = "fetch"
       ELSE /\ pc' = "after_loop"
            /\ UNCHANGED i
    /\ UNCHANGED <<holdings_file, button, output, holdings, df, data,
                   market_val, portfolio_data, total_asset, total_profit,
                   total_day_profit, history_cache, fetch_log>>

\* lines 164-169: nothing was fetched: error message, st.stop()
FailCycle ==
    /\ pc = "after_loop"
    /\ portfolio_data = << >>
    /\ output' = [kind |-> "error", msg |-> "ALL_HOLDINGS_FAILED"]
    /\ pc' = "failed"
    /\ UNCHANGED <<holdings_file, button, holdings, i, df, data, market_val,
                   portfolio_data, total_asset, total_profit,
                   total_day_profit, history_cache, fetch_log>>

\* lines 171-200: the cards and the table
RenderReport ==
    /\ pc = "after_loop"
    /\ portfolio_data # << >>
    /\ output' = [kind  |-> "report",
                  cards |-> <<FormatComma0(total_asset),
                              FormatComma0(total_profit),
                              FormatComma0(total_day_profit)>>,
                  table |-> portfolio_data]
    /\ pc' = "done"
    /\ UNCHANGED <<holdings_file, button, holdings, i, df, data, market_val,
                   portfolio_data, total_asset, total_profit,
                   total_day_profit, history_cache, fetch_log>>

\* Streamlit runs the script again from the top: on a click of the refresh
\* button (st.button gives True in that run) or on any other interaction.
\* main's locals hold nothing meaningful in the new run until the run assigns
\* them; the values of the previous run are left in place here, so that an
\* assignment the run did not make would show
Rerun ==
    /\ pc \in {"stopped", "failed", "done", "crashed"}
    /\ \E clicked \in BOOLEAN : button' = clicked
    /\ output' = NoOutput
    /\ pc' = "load"
    /\ UNCHANGED <<holdings_file, holdings, i, df, data, market_val,
                   portfolio_data, total_asset, total_profit,
                   total_day_profit, history_cache, fetch_log>>

Next ==
    \/ LoadHoldings
    \/ RefreshButton
    \/ ResetAccumulators
    \/ Fetch
    \/ Process
    \/ Sleep
    \/ FailCycle
    \/ RenderReport
    \/ Rerun

Spec == Init /\ [][Next]_vars

-----------------------------------------------------------------------------
(* Vocabulary of the properties. *)

\* the script run is inside the loop or past it
InCycle ==
    pc \in {"fetch", "process", "sleep", "after_loop", "done", "failed",
            "crashed"}

\* the cycle is over: the script run reached its end after the loop, or an
\* error raised by a fetch ended it
CycleEnded ==
    \/ pc \in {"done", "failed"}
    \/ pc = "crashed" /\ output.exc = "UnicodeEncodeError"

\* the call returned a snapshot
Succeeded(r) == r # None /\ ~IsRaised(r)

\* how many fetch outcomes the loop body has folded so far
Folded ==
    IF pc = "process" \/ (pc = "crashed" /\ output.exc = "ZeroDivisionError")
    THEN Len(fetch_log) - 1
    ELSE Len(fetch_log)

\* the positions (1-based) of the folded holdings whose fetch gave a snapshot,
\* in increasing order
SuccIdx ==
    SelectSeq([k \in 1..Folded |-> k],
              LAMBDA k : Succeeded(fetch_log[k].result))

AllFetchesFailed ==
    \A k \in 1..Len(fetch_log) : ~Succeeded(fetch_log[k].result)

AnyFetchFailed ==
    \E k \in 1..Len(fetch_log) : ~Succeeded(fetch_log[k].result)

\* the float sum of a list, added up from 0.0 in list order
RECURSIVE FSumFrom(_, _)
FSumFrom(acc, q) ==
    IF q = << >> THEN acc ELSE FSumFrom(FAdd(acc, Head(q)), Tail(q))

FSum(q) == FSumFrom(DZero(FALSE), q)

\* the stop_loss_pct of the k-th holding as holdings.json writes it
StopDecimal(k) == holdings_file.content[k].stop_loss_pct

\* (x / 100 - s) * 100 * s.den, exactly, for a float x and a decimal s
ExactDistance(x, s) == DSub(DMul(x, DInt(s.den)), DInt(100 * s.num))

\* ((cost - c) / cost - s) * cost * s.den, exactly, for a float c, an integer
\* cost > 0 and a decimal s
ExactLossOverStop(cost, c, s) ==
    DSub(DMul(DSub(DInt(cost), c), DInt(s.den)), DInt(s.num * cost))

-----------------------------------------------------------------------------
(* C1 *)

\* C1: inside a cycle and at its end, each of the three totals is the sum of
\* the corresponding quantity over exactly the holdings folded so far whose
\* fetch gave a snapshot in this cycle; a failed holding adds nothing and
\* nothing is left over from an earlier cycle.
C1_TotalsSumSuccessful ==
    InCycle =>
        LET m      == Len(SuccIdx)
            h(j)   == holdings[SuccIdx[j]]
            sn(j)  == fetch_log[SuccIdx[j]].result
        IN  /\ Len(portfolio_data) = m
            /\ total_asset =
                   FSum([j \in 1..m |->
                       FMul(sn(j).current_price, FromInt(h(j).quantity))])
            /\ total_profit =
                   FSum([j \in 1..m |->
                       FMul(FSub(sn(j).current_price,
                                 FromInt(h(j).cost_price)),
                            FromInt(h(j).quantity))])
            /\ total_day_profit =
                   FSum([j \in 1..m |->
                       FMul(sn(j).day_profit_per_share,
                            FromInt(h(j).quantity))])
            /\ total_profit =
                   FSum([j \in 1..m |-> portfolio_data[j].profit])
            /\ total_day_profit =
                   FSum([j \in 1..m |-> portfolio_data[j].day_profit])

\* a finished cycle in which one fetch failed, another succeeded with a
\* day-over-day change, and the totals are not zero
C1_Witness ==
    /\ pc = "done"
    /\ \E k \in 1..Len(fetch_log) : fetch_log[k].result = None
    /\ ~DIsZero(total_asset)
    /\ ~DIsZero(total_profit)
    /\ ~DIsZero(total_day_profit)

-----------------------------------------------------------------------------
(* C2 *)

\* C2: with distance = x / 100 - s, x the row's profit percentage and s the
\* holding's stop_loss_pct, a row's risk status is BREACH iff distance < 0,
\* WARNING iff 0 <= distance < 0.03 and SAFE iff distance >= 0.03; it is
\* exactly one of the three.
C2_RiskBoundaries ==
    InCycle =>
        \A j \in 1..Len(portfolio_data) :
            LET row == portfolio_data[j]
                s   == StopDecimal(SuccIdx[j])
                d   == ExactDistance(row.profit_pct, s)
            IN  /\ row.risk_status \in {"BREACH", "WARNING", "SAFE"}
                /\ row.risk_status = "BREACH" <=> DLt(d, DInt(0))
                /\ row.risk_status = "WARNING" <=>
                       (~DLt(d, DInt(0)) /\ DLt(d, DInt(3 * s.den)))
                /\ row.risk_status = "SAFE" <=> ~DLt(d, DInt(3 * s.den))

-----------------------------------------------------------------------------
(* C3 *)

\* C3: a cycle in which every fetch failed ends reported as failed, with no
\* row and no summary; a cycle in which at least one fetch succeeded ends
\* with the report of the holdings that succeeded.
C3_AllFailedEscalation ==
    /\ pc = "after_loop" => output.kind = "none"
    /\ CycleEnded =>
          IF AllFetchesFailed
          THEN /\ pc = "failed"
               /\ output = [kind |-> "error", msg |-> "ALL_HOLDINGS_FAILED"]
               /\ portfolio_data = << >>
          ELSE /\ pc = "done"
               /\ output.kind = "report"
               /\ output.table = portfolio_data
               /\ Len(output.table) = Len(SuccIdx)
               /\ Len(output.table) >= 1

-----------------------------------------------------------------------------
(* C4 *)

\* C4: the step that processes a failed fetch changes none of the three
\* totals, nor the row list, nor the history mapping, and goes on to the
\* delay; the loop is not cut short: a cycle in which a fetch failed is over
\* only when every holding of the list has been fetched.
C4_FailedFetchFrame ==
    [][/\ (pc = "process" /\ data = None) =>
              /\ UNCHANGED <<total_asset, total_profit, total_day_profit,
                             portfolio_data, history_cache>>
              /\ pc' = "sleep"
       /\ (CycleEnded /\ AnyFetchFailed)' =>
              (Len(fetch_log) = Len(holdings))']_vars

-----------------------------------------------------------------------------
(* C5 *)

\* C5: a fetch never raises an error into main; it returns None when the
\* provider call raised, when the response could not be processed and when
\* the response had no rows, and a snapshot only for a response with at least
\* one row, whose rows are the snapshot's history.
C5_FetchFailsSoftly ==
    /\ InCycle =>
          \A k \in 1..Len(fetch_log) :
              IsRaised(fetch_log[k].result) =>
                  fetch_log[k].result = Raised("KeyboardInterrupt")
    /\ pc = "process" =>
          /\ data = None <=>
                 (df.kind \in {"raise", "malformed"} \/ df.rows = << >>)
          /\ data # None =>
                 /\ df.kind = "rows"
                 /\ Len(data.history_df) >= 1
                 /\ data.history_df = df.rows

-----------------------------------------------------------------------------
(* C6 *)

\* C6: when the cycle is over, the calls made were one per holding, in list
\* order, and the rows are the holdings whose fetch succeeded, one row each,
\* in list order.
C6_InputOrderPreserved ==
    CycleEnded =>
        /\ Len(fetch_log) = Len(holdings)
        /\ \A k \in 1..Len(fetch_log) : fetch_log[k].code = holdings[k].code
        /\ Len(portfolio_data) = Len(SuccIdx)
        /\ \A j \in 1..Len(portfolio_data) :
              /\ portfolio_data[j].code = holdings[SuccIdx[j]].code
              /\ portfolio_data[j].name = holdings[SuccIdx[j]].name
              /\ portfolio_data[j].qty = holdings[SuccIdx[j]].quantity
              /\ portfolio_data[j].cost = holdings[SuccIdx[j]].cost_price

-----------------------------------------------------------------------------
(* C7 *)

\* C7: calls are made one at a time, and a step that brings the loop to a
\* fetch other than the first of the cycle is the delay step.
C7_DelayBetweenFetches ==
    /\ [][(pc' = "fetch" /\ fetch_log' # << >>) => pc = "sleep"]_vars
    /\ [](pc = "fetch" => Len(fetch_log) = i)
    /\ [](pc \in {"process", "sleep"} => Len(fetch_log) = i + 1)

\* the second fetch of a cycle is about to start, after a failed first
C7_Witness ==
    /\ pc = "fetch"
    /\ i = 1
    /\ fetch_log[1].result = None

-----------------------------------------------------------------------------
(* C8 *)

\* C8: a snapshot's current price is the close of the last row; with two or
\* more rows its percent change is (last - prev) / prev * 100 and its day
\* profit per share is last - prev, prev being the row before the last; with
\* exactly one row both are 0.
C8_SnapshotFromLastTwoRows ==
    (pc = "process" /\ data # None) =>
        LET n    == Len(df.rows)
            last == FromInt(df.rows[n])
            prev == FromInt(df.rows[n - 1])
        IN  /\ n >= 1
            /\ data.current_price = last
            /\ n >= 2 =>
                  /\ data.pct_change =
                         FMul(FDiv(FSub(last, prev), prev), FromInt(100))
                  /\ data.day_profit_per_share = FSub(last, prev)
            /\ n = 1 =>
                  /\ data.pct_change = DZero(FALSE)
                  /\ data.day_profit_per_share = DZero(FALSE)

\* a snapshot made from two or more rows whose last two closes differ
C8_Witness ==
    /\ pc = "process"
    /\ data # None
    /\ Len(df.rows) >= 2
    /\ df.rows[Len(df.rows)] # df.rows[Len(df.rows) - 1]

-----------------------------------------------------------------------------
(* C9 *)

\* C9: every row carries the figures of its own holding and of that holding's
\* snapshot of this cycle: profit = (current - cost) * quantity,
\* profit_pct = (current - cost) / cost * 100, day_profit = day profit per
\* share * quantity, and the market value computed for the holding is
\* current * quantity; the quantity may be negative.
C9_PositionArithmetic ==
    /\ InCycle =>
          \A j \in 1..Len(portfolio_data) :
              LET row  == portfolio_data[j]
                  h    == holdings[SuccIdx[j]]
                  snap == fetch_log[SuccIdx[j]].result
                  c    == snap.current_price
                  cost == FromInt(h.cost_price)
                  qty  == FromInt(h.quantity)
              IN  h.cost_price > 0 =>
                    /\ row.current = c
                    /\ row.profit = FMul(FSub(c, cost), qty)
                    /\ row.profit_pct =
                           FMul(FDiv(FSub(c, cost), cost), FromInt(100))
                    /\ row.day_profit = FMul(snap.day_profit_per_share, qty)
    /\ (pc = "sleep" /\ data # None) =>
          market_val =
              FMul(data.current_price, FromInt(holdings[i + 1].quantity))

\* a row for a short position (negative quantity) with a profit and a day
\* profit that are not zero
C9_Witness ==
    /\ pc = "sleep"
    /\ data # None
    /\ holdings[i + 1].quantity < 0
    /\ portfolio_data[Len(portfolio_data)].qty < 0
    /\ ~DIsZero(portfolio_data[Len(portfolio_data)].profit)
    /\ ~DIsZero(portfolio_data[Len(portfolio_data)].day_profit)

-----------------------------------------------------------------------------
(* C10 *)

\* C10 as stated: for a holding with stop_loss_pct > 0 and cost_price > 0, a
\* row flagged BREACH has a fractional loss (cost - current) / cost of at
\* least stop_loss_pct.
C10_BreachMeansLossReachedStop ==
    InCycle =>
        \A j \in 1..Len(portfolio_data) :
            LET row == portfolio_data[j]
                h   == holdings[SuccIdx[j]]
                s   == StopDecimal(SuccIdx[j])
            IN  (s.num > 0 /\ h.cost_price > 0 /\ row.risk_status = "BREACH")
                    => ~DLt(ExactLossOverStop(h.cost_price, row.current, s),
                            DInt(0))

\* C10 amended: for a holding with stop_loss_pct > 0 and cost_price > 0, a row
\* flagged BREACH has a profit fraction profit_pct / 100, as the script
\* computes it, strictly below stop_loss_pct.
C10_BreachMeansProfitBelowStop ==
    InCycle =>
        \A j \in 1..Len(portfolio_data) :
            LET row == portfolio_data[j]
                h   == holdings[SuccIdx[j]]
                s   == StopDecimal(SuccIdx[j])
            IN  (s.num > 0 /\ h.cost_price > 0 /\ row.risk_status = "BREACH")
                    => FLt(FDiv(row.profit_pct, FromInt(100)),
                           h.stop_loss_pct)

\* a row flagged BREACH whose holding has a positive stop_loss_pct and whose
\* loss is smaller than that stop_loss_pct
C10_Witness ==
    /\ InCycle
    /\ \E j \in 1..Len(portfolio_data) :
          LET row == portfolio_data[j]
              h   == holdings[SuccIdx[j]]
              s   == StopDecimal(SuccIdx[j])
          IN  /\ s.num > 0
              /\ row.risk_status = "BREACH"
              /\ DLt(ExactLossOverStop(h.cost_price, row.current, s),
                     DInt(0))

====
